---- MODULE Spec2Model ----
(***************************************************************************)
(* The samples view state of the virtool client: samplesReducer            *)
(* (client/src/js/samples/reducer.js) folded over the actions the store    *)
(* receives: websocket push events, query requests and their responses,    *)
(* detail fetches and mutations, and the local selection.                  *)
(*                                                                         *)
(* After it, the components and sagas of the client that keep state of     *)
(* their own, each with a specification of its own in which the others     *)
(* stay at rest.                                                           *)
(*                                                                         *)
(* The helpers insert, update, remove and updateDocuments are imported by  *)
(* the reducer from ../utils/reducers; they are modelled from the design   *)
(* document (sections 4.1 and 4.2).                                        *)
(***************************************************************************)
EXTENDS Integers, Sequences, FiniteSets

VARIABLES state, inflight, requested,
          indexDetail, referenceDetail, jobsResources, window,
          groupsModal, addUser,
          apiKey,
          tasks, throttles, puts,
          xhr, channel, uploadTask

samplesVars == <<state, inflight, requested>>
viewsVars == <<indexDetail, referenceDetail, jobsResources, window>>
formsVars == <<groupsModal, addUser>>
sagasVars == <<tasks, throttles, puts>>
uploadVars == <<xhr, channel, uploadTask>>

vars == <<samplesVars, viewsVars, formsVars, apiKey, sagasVars, uploadVars>>

(***************************************************************************)
(* Bounds of the model.                                                    *)
(***************************************************************************)
MaxId == 2
MaxInflight == 2

Ids == 1..MaxId
\* the values the inputs are drawn from: an earlier and a later creation
\* time, two filter terms, the first page
Stamps == {1, 2}
Terms == {"a", "b"}
Pages == {1}

(***************************************************************************)
(* JavaScript values.  null is a record of its own, so that it compares    *)
(* with every document and every wrapped list; an array that may be null   *)
(* is wrapped as [list |-> <<...>>].  A field that the state object does   *)
(* not have reads as undefined, and undefined + 1 is NaN.                  *)
(***************************************************************************)
Null == [null |-> TRUE]
List(q) == [list |-> q]
Undefined == 0 - 1
NaN == 0 - 2

\* null where the other values are strings: it equals no id
NullId == "null"

Max(a, b) == IF a >= b THEN a ELSE b

(***************************************************************************)
(* The components at rest: the props and the state each one has before     *)
(* anything has happened to it.                                            *)
(***************************************************************************)
ViewsIdle ==
    /\ indexDetail = [error |-> Null, detail |-> Null]
    /\ referenceDetail = [error |-> Null, detail |-> Null, refId |-> 1]
    /\ jobsResources = [mounted |-> "no", error |-> Null, resources |-> Null,
                        timer |-> Undefined]
    /\ window = [intervals |-> {}, handles |-> 0]

\* Groups as its constructor leaves it, with no group list yet; AddUser
\* with getInitialState
FormsIdle ==
    /\ groupsModal = [props |-> [groups |-> Null, error |-> ""],
                      state |-> [activeId |-> NullId, createGroupId |-> "",
                                 spaceError |-> FALSE, submitted |-> FALSE,
                                 error |-> ""],
                      thrown |-> FALSE]
    /\ addUser = [username |-> "", password |-> "", confirm |-> "",
                  error |-> FALSE, forceReset |-> FALSE]

\* APIKey over a key without permissions, collapsed
PermissionKeys == {"create_sample", "modify_otu", "remove_job", "upload_file"}
APIKeyIdle ==
    LET none == [k \in PermissionKeys |-> FALSE]
    IN  apiKey = [props |-> [permissions |-> none],
                  state |-> [in |-> FALSE, changed |-> FALSE,
                             permissions |-> none]]

\* the watchers of the groups and files sagas before any request: no task,
\* no throttle delay running, nothing put to the store
SagasIdle ==
    /\ tasks = <<>>
    /\ throttles = [type \in {"CREATE_GROUP", "REMOVE_GROUP"} |-> FALSE]
    /\ puts = {}

\* the upload saga as UPLOAD.REQUESTED starts it: the request is under way,
\* the channel is open and empty, the saga is at its first take
UploadIdle ==
    /\ xhr = [progress |-> 0, emitted |-> {}, outcome |-> "pending"]
    /\ channel = [buffer |-> <<>>, closed |-> FALSE]
    /\ uploadTask = [pc |-> "take", dispatched |-> <<>>]

\* { ...old, ...patch }
Spread(old, patch) ==
    IF old = Null THEN patch
    ELSE [f \in DOMAIN old \cup DOMAIN patch |->
            IF f \in DOMAIN patch THEN patch[f] ELSE old[f]]

RECURSIVE SelectSeq2(_, _)
\* the elements of q that are not in the set drop, in q's order
SelectSeq2(q, drop) ==
    IF q = <<>> THEN <<>>
    ELSE IF Head(q) \in drop THEN SelectSeq2(Tail(q), drop)
         ELSE <<Head(q)>> \o SelectSeq2(Tail(q), drop)

Range(q) == {q[i] : i \in 1..Len(q)}

RECURSIVE uniq(_)
\* lodash uniq: the first occurrence of every value, in order
uniq(q) ==
    IF q = <<>> THEN <<>>
    ELSE <<Head(q)>> \o uniq(SelectSeq2(Tail(q), {Head(q)}))

\* lodash xor(a, b): the values found in exactly one of the two arrays,
\* those of a first, without repetition
xor(a, b) == uniq(SelectSeq2(a, Range(b)) \o SelectSeq2(b, Range(a)))

(***************************************************************************)
(* Documents.  A sample of the list has an id, the created_at field the    *)
(* list is sorted by, and a name that no push event changes.               *)
(***************************************************************************)
Doc(i, c) == [id |-> i, created_at |-> c, name |-> "sample"]
Documents == {Doc(i, c) : i \in Ids, c \in Stamps}
\* a push update carries the id and the changed fields only
Patches == {[id |-> i, created_at |-> c] : i \in Ids, c \in Stamps}

DocumentsOf(s) == IF s.documents = Null THEN <<>> ELSE s.documents.list
IdsOf(q) == {q[i].id : i \in 1..Len(q)}
IndexOf(q, id) == CHOOSE i \in 1..Len(q) : q[i].id = id

initialState ==
    [documents |-> Null,
     term |-> "",
     page |-> 0,
     totalDocumentCount |-> Undefined,
     totalPageCount |-> Undefined,
     detail |-> Null,
     readFiles |-> Null,
     showEdit |-> FALSE,
     showRemove |-> FALSE,
     editError |-> FALSE,
     reservedFiles |-> <<>>,
     readyHosts |-> Null,
     selected |-> <<>>]

(***************************************************************************)
(* ../utils/reducers: the Push Merge Operator and the query replacement.   *)
(***************************************************************************)
Inc(n) == IF n \in {Undefined, NaN} THEN NaN ELSE n + 1
Dec(n) == IF n \in {Undefined, NaN} THEN NaN ELSE Max(n - 1, 0)

\* where a document with sort key k goes in q: before the first document
\* that sorts after it
Position(q, k, sortField, sortAscending) ==
    LET after == {i \in 1..Len(q) :
                    IF sortAscending THEN q[i][sortField] > k
                                     ELSE q[i][sortField] < k}
    IN  IF after = {} THEN Len(q) + 1
        ELSE CHOOSE i \in after : \A j \in after : i <= j

InsertAt(q, i, d) == SubSeq(q, 1, i - 1) \o <<d>> \o SubSeq(q, i, Len(q))

\* Update: shallow-merge the payload into the entry with its id, in place;
\* nothing when the id is not in the list
update(s, action) ==
    LET q == DocumentsOf(s)
    IN  IF action.data.id \notin IdsOf(q) THEN s
        ELSE LET i == IndexOf(q, action.data.id)
             IN  [s EXCEPT !.documents =
                     List([q EXCEPT ![i] = Spread(q[i], action.data)])]

\* Insert: an id already in the list is an Update; otherwise the payload
\* goes in at the place its sort field gives and the total count grows
insert(s, action, sortField, sortAscending) ==
    LET q == DocumentsOf(s)
    IN  IF action.data.id \in IdsOf(q) THEN update(s, action)
        ELSE [s EXCEPT
                !.documents = List(InsertAt(q,
                    Position(q, action.data[sortField], sortField, sortAscending),
                    action.data)),
                !.totalDocumentCount = Inc(s.totalDocumentCount)]

\* Remove: delete the entry with the id and decrement the total count
\* (not below 0); nothing when the id is not in the list
remove(s, action) ==
    LET q == DocumentsOf(s)
    IN  IF action.data.id \notin IdsOf(q) THEN s
        ELSE [s EXCEPT
                !.documents = List(SelectSeq(q, LAMBDA d : d.id # action.data.id)),
                !.totalDocumentCount = Dec(s.totalDocumentCount)]

\* a full query result replaces documents and the pagination fields
updateDocuments(s, action) ==
    [s EXCEPT
        !.documents = List(action.data.documents),
        !.page = action.data.page,
        !.totalDocumentCount = action.data.totalDocumentCount,
        !.totalPageCount = action.data.totalPageCount,
        !.term = action.data.term]

(***************************************************************************)
(* samplesReducer, one operator for each case of its switch.               *)
(***************************************************************************)

\* a reducer that puts every pushed document in without looking for its id
InsertWithoutLookup(s, action) ==
    LET q == DocumentsOf(s)
    IN  [s EXCEPT
            !.documents = List(InsertAt(q,
                Position(q, action.data.created_at, "created_at", TRUE), action.data)),
            !.totalDocumentCount = Inc(s.totalDocumentCount)]

\* a reducer that puts a new document at the end of the list
InsertAppends(s, action) ==
    LET q == DocumentsOf(s)
    IN  IF action.data.id \in IdsOf(q) THEN update(s, action)
        ELSE [s EXCEPT
                !.documents = List(Append(q, action.data)),
                !.totalDocumentCount = Inc(s.totalDocumentCount)]

\* a reducer that puts the pushed payload in the place of the listed
\* document with its id, instead of merging it in
InsertReplaces(s, action) ==
    LET q == DocumentsOf(s)
    IN  IF action.data.id \in IdsOf(q)
        THEN [s EXCEPT !.documents =
                 List([q EXCEPT ![IndexOf(q, action.data.id)] = action.data])]
        ELSE insert(s, action, "created_at", TRUE)

WS_INSERT_SAMPLE(s, action) == insert(s, action, "created_at", TRUE)

\* a reducer that takes the updated document out and puts it back where its
\* sort field now places it
UpdateResorts(s, action) ==
    LET q == DocumentsOf(s)
    IN  IF action.data.id \notin IdsOf(q) THEN s
        ELSE insert(remove(s, action),
                    [action EXCEPT !.data =
                        Spread(q[IndexOf(q, action.data.id)], action.data)],
                    "created_at", TRUE)

WS_UPDATE_SAMPLE(s, action) == update(s, action)


\* a reducer that counts every remove event, also one for an unknown id
RemoveAlwaysCounts(s, action) ==
    [remove(s, action) EXCEPT !.totalDocumentCount = Dec(s.totalDocumentCount)]

\* a reducer that takes the document out of the list and leaves the total
\* count as it was
RemoveKeepsCount(s, action) ==
    [remove(s, action) EXCEPT !.totalDocumentCount = s.totalDocumentCount]

\* a reducer that lets a pushed removal pass without effect
RemoveUnhandled(s, action) == s

WS_REMOVE_SAMPLE(s, action) == remove(s, action)


\* a reducer that starts every new query with an empty selection
FindRequestedResetsSelection(s, action) ==
    [s EXCEPT !.term = action.term, !.selected = <<>>]

\* a reducer that takes the requested page along with the requested term
FindRequestedSetsPage(s, action) ==
    [s EXCEPT !.term = action.term, !.page = action.page]

FIND_SAMPLES_REQUESTED(s, action) == [s EXCEPT !.term = action.term]


\* a reducer that appends the page it receives to the documents it has
FindSucceededAppends(s, action) ==
    [updateDocuments(s, action) EXCEPT
        !.documents = List(DocumentsOf(s) \o action.data.documents)]

\* a reducer that takes the documents and the counts of a result and keeps
\* the page it had
FindSucceededKeepsPage(s, action) ==
    [updateDocuments(s, action) EXCEPT !.page = s.page]

FIND_SAMPLES_SUCCEEDED(s, action) == updateDocuments(s, action)

FIND_READ_FILES_SUCCEEDED(s, action) ==
    [s EXCEPT !.readFiles = List(action.data.documents)]

FIND_READY_HOSTS_SUCCEEDED(s, action) ==
    [s EXCEPT !.readyHosts = List(action.data.documents)]

GET_SAMPLE_REQUESTED(s, action) == [s EXCEPT !.detail = Null]

GET_SAMPLE_SUCCEEDED(s, action) == [s EXCEPT !.detail = action.data]

\* a reducer that puts the edited fields in the place of the open detail
UpdateReplacesDetail(s, action) == [s EXCEPT !.detail = action.data]

UPDATE_SAMPLE_SUCCEEDED(s, action) ==
    [s EXCEPT !.detail = Spread(s.detail, action.data)]

UPDATE_SAMPLE_RIGHTS_SUCCEEDED(s, action) ==
    [s EXCEPT !.detail = Spread(s.detail, action.data)]

REMOVE_SAMPLE_SUCCEEDED(s, action) == [s EXCEPT !.detail = Null]

SHOW_REMOVE_SAMPLE(s, action) == [s EXCEPT !.showRemove = TRUE]

HIDE_SAMPLE_MODAL(s, action) == [s EXCEPT !.showRemove = FALSE]


\* a reducer that adds the id to the selection and never takes it out
SelectAddsOnly(s, action) ==
    [s EXCEPT !.selected = uniq(s.selected \o <<action.sampleId>>)]

\* a reducer that keeps one selected id at a time
SelectReplaces(s, action) ==
    [s EXCEPT !.selected = xor(SelectSeq2(s.selected, Ids \ {action.sampleId}),
                               <<action.sampleId>>)]

SELECT_SAMPLE(s, action) ==
    [s EXCEPT !.selected = xor(s.selected, <<action.sampleId>>)]


\* a reducer that deselects the documents of the loaded page only
ClearVisibleOnly(s, action) ==
    [s EXCEPT !.selected = SelectSeq2(s.selected, IdsOf(DocumentsOf(s)))]

\* a reducer that closes the open detail together with the selection
ClearResetsDetail(s, action) ==
    [s EXCEPT !.selected = <<>>, !.detail = Null]

CLEAR_SAMPLE_SELECTION(s, action) == [s EXCEPT !.selected = <<>>]

\* default: every other action type

\* a reducer that drops the open detail on an action it does not handle
UnhandledClearsDetail(s, action) == [s EXCEPT !.detail = Null]

Unhandled(s, action) == s

samplesReducer(s, action) ==
    CASE action.type = "WS_INSERT_SAMPLE" -> WS_INSERT_SAMPLE(s, action)
      [] action.type = "WS_UPDATE_SAMPLE" -> WS_UPDATE_SAMPLE(s, action)
      [] action.type = "WS_REMOVE_SAMPLE" -> WS_REMOVE_SAMPLE(s, action)
      [] action.type = "FIND_SAMPLES.REQUESTED" -> FIND_SAMPLES_REQUESTED(s, action)
      [] action.type = "FIND_SAMPLES.SUCCEEDED" -> FIND_SAMPLES_SUCCEEDED(s, action)
      [] action.type = "FIND_READ_FILES.SUCCEEDED" -> FIND_READ_FILES_SUCCEEDED(s, action)
      [] action.type = "FIND_READY_HOSTS.SUCCEEDED" -> FIND_READY_HOSTS_SUCCEEDED(s, action)
      [] action.type = "GET_SAMPLE.REQUESTED" -> GET_SAMPLE_REQUESTED(s, action)
      [] action.type = "GET_SAMPLE.SUCCEEDED" -> GET_SAMPLE_SUCCEEDED(s, action)
      [] action.type = "UPDATE_SAMPLE.SUCCEEDED" -> UPDATE_SAMPLE_SUCCEEDED(s, action)
      [] action.type = "UPDATE_SAMPLE_RIGHTS.SUCCEEDED" ->
            UPDATE_SAMPLE_RIGHTS_SUCCEEDED(s, action)
      [] action.type = "REMOVE_SAMPLE.SUCCEEDED" -> REMOVE_SAMPLE_SUCCEEDED(s, action)
      [] action.type = "SHOW_REMOVE_SAMPLE" -> SHOW_REMOVE_SAMPLE(s, action)
      [] action.type = "HIDE_SAMPLE_MODAL" -> HIDE_SAMPLE_MODAL(s, action)
      [] action.type = "SELECT_SAMPLE" -> SELECT_SAMPLE(s, action)
      [] action.type = "CLEAR_SAMPLE_SELECTION" -> CLEAR_SAMPLE_SELECTION(s, action)
      [] OTHER -> Unhandled(s, action)

(***************************************************************************)
(* The API the sagas call.  A query for a term and a page answers with the *)
(* page of the matching samples, the counts, and the term it was for.      *)
(***************************************************************************)
Min(a, b) == IF a <= b THEN a ELSE b

ServerDocument(i) == Doc(i, Min(i, 2))

\* "a" matches every sample, "b" the first one only; all fit on page 1
Matching(term) == IF term = "a" THEN MaxId ELSE 1

FindResult(term, page) ==
    [documents |-> IF page = 1 THEN [i \in 1..Matching(term) |-> ServerDocument(i)]
                               ELSE <<>>,
     page |-> page,
     totalDocumentCount |-> Matching(term),
     totalPageCount |-> 1,
     term |-> term]

SampleDetail(i) == [id |-> i, name |-> "sample", all_read |-> FALSE]
Edits == {[name |-> "renamed"]}
Rights == {[all_read |-> TRUE]}

Mutations == {"UPDATE_SAMPLE", "UPDATE_SAMPLE_RIGHTS", "REMOVE_SAMPLE"}

(***************************************************************************)
(* The store: every action goes through the reducer, one at a time.  The   *)
(* actions dispatched are those on the list, the detail and the selection; *)
(* the read files, the ready hosts and the remove modal keep their initial *)
(* values.                                                                 *)
(***************************************************************************)
\* the actions as the reducer reads them
wsInsertSample(d) == [type |-> "WS_INSERT_SAMPLE", data |-> d]
wsUpdateSample(d) == [type |-> "WS_UPDATE_SAMPLE", data |-> d]
wsRemoveSample(i) == [type |-> "WS_REMOVE_SAMPLE", data |-> [id |-> i]]
findSamplesRequested(q) ==
    [type |-> "FIND_SAMPLES.REQUESTED", term |-> q.term, page |-> q.page]
findSamplesSucceeded(q) ==
    [type |-> "FIND_SAMPLES.SUCCEEDED", data |-> FindResult(q.term, q.page)]
selectSample(i) == [type |-> "SELECT_SAMPLE", sampleId |-> i]
clearSampleSelection == [type |-> "CLEAR_SAMPLE_SELECTION"]

NoRequest == [term |-> "", page |-> 0]

SamplesIdle ==
    /\ state = initialState
    /\ inflight = {}
    /\ requested = NoRequest

Init ==
    /\ SamplesIdle
    /\ ViewsIdle
    /\ FormsIdle
    /\ APIKeyIdle
    /\ SagasIdle
    /\ UploadIdle

Dispatch(action) ==
    /\ state' = samplesReducer(state, action)
    /\ UNCHANGED <<viewsVars, formsVars, apiKey, sagasVars, uploadVars>>

WsInsertSample ==
    \E d \in Documents :
        /\ Dispatch(wsInsertSample(d))
        /\ UNCHANGED <<inflight, requested>>

WsUpdateSample ==
    \E d \in Patches :
        /\ Dispatch(wsUpdateSample(d))
        /\ UNCHANGED <<inflight, requested>>

WsRemoveSample ==
    \E i \in Ids :
        /\ Dispatch(wsRemoveSample(i))
        /\ UNCHANGED <<inflight, requested>>

\* the action reaches the reducer and the saga sends the query
FindSamplesRequested ==
    \E term \in Terms, page \in Pages :
        LET q == [term |-> term, page |-> page]
        IN  /\ Cardinality(inflight \cup {q}) <= MaxInflight
            /\ Dispatch(findSamplesRequested(q))
            /\ inflight' = inflight \cup {q}
            /\ requested' = q

\* the answers come back in any order
FindSamplesSucceeded ==
    \E q \in inflight :
        /\ Dispatch(findSamplesSucceeded(q))
        /\ inflight' = inflight \ {q}
        /\ UNCHANGED requested

GetSampleRequested ==
    /\ Dispatch([type |-> "GET_SAMPLE.REQUESTED"])
    /\ UNCHANGED <<inflight, requested>>

GetSampleSucceeded ==
    \E i \in Ids :
        /\ Dispatch([type |-> "GET_SAMPLE.SUCCEEDED", data |-> SampleDetail(i)])
        /\ UNCHANGED <<inflight, requested>>

UpdateSampleSucceeded ==
    \E d \in Edits :
        /\ Dispatch([type |-> "UPDATE_SAMPLE.SUCCEEDED", data |-> d])
        /\ UNCHANGED <<inflight, requested>>

UpdateSampleRightsSucceeded ==
    \E d \in Rights :
        /\ Dispatch([type |-> "UPDATE_SAMPLE_RIGHTS.SUCCEEDED", data |-> d])
        /\ UNCHANGED <<inflight, requested>>

RemoveSampleSucceeded ==
    /\ Dispatch([type |-> "REMOVE_SAMPLE.SUCCEEDED"])
    /\ UNCHANGED <<inflight, requested>>

MutationRequested ==
    \E m \in Mutations :
        /\ Dispatch([type |-> m \o ".REQUESTED"])
        /\ UNCHANGED <<inflight, requested>>

MutationFailed ==
    \E m \in Mutations :
        /\ Dispatch([type |-> m \o ".FAILED"])
        /\ UNCHANGED <<inflight, requested>>

SelectSample ==
    \E i \in Ids :
        /\ Dispatch(selectSample(i))
        /\ UNCHANGED <<inflight, requested>>

ClearSampleSelection ==
    /\ Dispatch(clearSampleSelection)
    /\ UNCHANGED <<inflight, requested>>

Next ==
    \/ WsInsertSample
    \/ WsUpdateSample
    \/ WsRemoveSample
    \/ FindSamplesRequested
    \/ FindSamplesSucceeded
    \/ GetSampleRequested
    \/ GetSampleSucceeded
    \/ UpdateSampleSucceeded
    \/ UpdateSampleRightsSucceeded
    \/ RemoveSampleSucceeded
    \/ MutationRequested
    \/ MutationFailed
    \/ SelectSample
    \/ ClearSampleSelection

Spec == Init /\ [][Next]_vars

(***************************************************************************)
(* The detail views: IndexDetail (indexes/components/Detail.js),           *)
(* ReferenceDetail and JobsResources.  Each renders NotFound, the loading  *)
(* placeholder or its content from its props; JobsResources also polls     *)
(* with an interval of the window.                                         *)
(***************************************************************************)
MaxHandles == 3

Errors == {[status |-> 404, message |-> "Not found"]}
IndexDocuments == {[id |-> i] : i \in Ids}
ReferenceDocuments == {[id |-> i] : i \in Ids}
Resources == {[proc |-> <<50>>]}

\* a render that looks at the detail before it looks at the error
IndexDetailNullFirst(props) ==
    IF props.detail = Null THEN "LoadingPlaceholder"
    ELSE IF props.error # Null THEN "NotFound"
    ELSE "IndexDetail"

IndexDetailRender(props) ==
    IF props.error # Null THEN "NotFound"
    ELSE IF props.detail = Null THEN "LoadingPlaceholder"
    ELSE "IndexDetail"

ReferenceDetailRender(props) ==
    IF props.error # Null THEN "NotFound"
    ELSE IF props.detail = Null \/ props.detail.id # props.refId
         THEN "LoadingPlaceholder"
    ELSE "ReferenceDetail"

JobsResourcesRender(props) ==
    IF props.error # Null THEN "NotFound"
    ELSE IF props.resources = Null THEN "LoadingPlaceholder"
    ELSE "JobsResources"

\* window.setInterval: the interval is active under a handle never given
\* before; window.clearInterval: the interval of the handle, if there is
\* one, is no longer active
setInterval(w) ==
    [intervals |-> w.intervals \cup {w.handles + 1}, handles |-> w.handles + 1]
clearInterval(w, handle) == [w EXCEPT !.intervals = @ \ {handle}]

\* the window after componentDidUpdate of a component whose timer is timer
componentDidUpdate(w, timer, prevError, error) ==
    LET cleared == IF prevError = Null /\ error # Null
                   THEN clearInterval(w, timer) ELSE w
    IN  IF prevError # Null /\ error = Null THEN setInterval(cleared)
        ELSE cleared

\* the store hands IndexDetail new props
IndexDetailProps ==
    /\ \E e \in {Null} \cup Errors, d \in {Null} \cup IndexDocuments :
          indexDetail' = [error |-> e, detail |-> d]
    /\ UNCHANGED <<referenceDetail, jobsResources, window, samplesVars, formsVars, apiKey, sagasVars, uploadVars>>

\* the store or the router hands ReferenceDetail new props
ReferenceDetailProps ==
    /\ \E e \in {Null} \cup Errors, d \in {Null} \cup ReferenceDocuments,
          r \in Ids :
          referenceDetail' = [error |-> e, detail |-> d, refId |-> r]
    /\ UNCHANGED <<indexDetail, jobsResources, window, samplesVars, formsVars, apiKey, sagasVars, uploadVars>>

JobsResourcesDidMount ==
    /\ jobsResources.mounted = "no"
    /\ window.handles < MaxHandles
    /\ window' = setInterval(window)
    /\ jobsResources' = [jobsResources EXCEPT !.mounted = "yes",
                                              !.timer = window'.handles]
    /\ UNCHANGED <<indexDetail, referenceDetail, samplesVars, formsVars, apiKey, sagasVars, uploadVars>>

\* new props while mounted: the fetch error appears or goes, resources
\* arrive; componentDidUpdate runs after each
JobsResourcesProps ==
    /\ jobsResources.mounted = "yes"
    /\ \E e \in {Null} \cup Errors, r \in {Null} \cup Resources :
          /\ (e = Null /\ jobsResources.error # Null) =>
                 window.handles < MaxHandles
          /\ window' = componentDidUpdate(window, jobsResources.timer,
                                          jobsResources.error, e)
          /\ jobsResources' = [jobsResources EXCEPT !.error = e,
                                                    !.resources = r]
    /\ UNCHANGED <<indexDetail, referenceDetail, samplesVars, formsVars, apiKey, sagasVars, uploadVars>>

JobsResourcesWillUnmount ==
    /\ jobsResources.mounted = "yes"
    /\ window' = clearInterval(window, jobsResources.timer)
    /\ jobsResources' = [jobsResources EXCEPT !.mounted = "unmounted"]
    /\ UNCHANGED <<indexDetail, referenceDetail, samplesVars, formsVars, apiKey, sagasVars, uploadVars>>

ViewsInit ==
    ViewsIdle /\ SamplesIdle /\ FormsIdle /\ APIKeyIdle /\ SagasIdle
        /\ UploadIdle

ViewsNext ==
    \/ IndexDetailProps
    \/ ReferenceDetailProps
    \/ JobsResourcesDidMount
    \/ JobsResourcesProps
    \/ JobsResourcesWillUnmount

ViewsSpec == ViewsInit /\ [][ViewsNext]_vars

(***************************************************************************)
(* The forms: the Groups modal (its component state and the props the      *)
(* store hands it) and the AddUser modal (components/Viruses/Manage.js).   *)
(* A group of the list is an object: ref tells two objects with the same   *)
(* id apart, as the list loaded again holds new objects.                   *)
(***************************************************************************)
GroupIds == {"administrator", "technician"}
Refs == {1, 2}
Groups == {[id |-> g, ref |-> r] : g \in GroupIds, r \in Refs}
\* the lists the store can hold: groups with distinct ids, in any order
GroupLists ==
    {<<>>} \cup {<<a>> : a \in Groups}
           \cup {q \in {<<a, b>> : a \in Groups, b \in Groups} :
                    q[1].id # q[2].id}
\* what can be typed into the group id field: nothing, an id, an id with a
\* space in it
Texts == {"", "new", "n w"}
HasSpace(text) == text = "n w"
CreateGroupErrors == {"Group already exists"}

\* lodash difference: the elements of a that are not in b, in a's order
difference(a, b) == SelectSeq2(a, Range(b))

\* constructor and componentWillMount
GroupsMounted(groups) ==
    [props |-> [groups |-> groups, error |-> ""],
     state |-> [activeId |-> IF groups # Null /\ Len(groups.list) > 0
                             THEN groups.list[1].id ELSE NullId,
                createGroupId |-> "", spaceError |-> FALSE,
                submitted |-> FALSE, error |-> ""],
     thrown |-> FALSE]

\* a component that empties the group id field whenever new props arrive
ReceivePropsClearsInput(c, nextProps) ==
    IF nextProps.groups = Null THEN [c EXCEPT !.thrown = TRUE]
    ELSE [c EXCEPT !.props = nextProps, !.state.createGroupId = ""]

\* the component after componentWillReceiveProps(nextProps) and the props
\* taking effect.  Reading .length of a null list throws: the component is
\* left as it was, marked thrown.
componentWillReceiveProps(c, nextProps) ==
    IF nextProps.groups = Null THEN [c EXCEPT !.thrown = TRUE]
    ELSE LET next == nextProps.groups.list
         IN  IF Len(next) = 0 THEN [c EXCEPT !.props = nextProps]
             ELSE IF c.props.groups = Null THEN [c EXCEPT !.thrown = TRUE]
             ELSE LET prev == c.props.groups.list
                      first == IF \A g \in Range(next) : g.id # c.state.activeId
                               THEN next[1].id ELSE c.state.activeId
                  IN  IF Len(next) > Len(prev)
                      THEN [c EXCEPT !.props = nextProps,
                                     !.state.activeId = difference(next, prev)[1].id,
                                     !.state.createGroupId = ""]
                      ELSE [c EXCEPT !.props = nextProps,
                                     !.state.activeId = first]

\* this.props.onClearError("CREATE_GROUP_ERROR") when there is an error: the
\* store hands the component its props again without the error
onClearError(c) ==
    IF c.props.error = "" THEN c
    ELSE componentWillReceiveProps(c, [c.props EXCEPT !.error = ""])

handleChange(c, value) ==
    onClearError([c EXCEPT !.state.createGroupId = value,
                           !.state.spaceError = c.state.spaceError /\ HasSpace(value),
                           !.state.submitted = FALSE,
                           !.state.error = ""])

handleSubmit(c) ==
    IF c.state.createGroupId = "" THEN [c EXCEPT !.state.error = "Group id missing"]
    ELSE IF HasSpace(c.state.createGroupId) THEN [c EXCEPT !.state.spaceError = TRUE]
    ELSE [c EXCEPT !.state.submitted = TRUE]

handleModalExited(c) ==
    onClearError([c EXCEPT !.state.createGroupId = "",
                           !.state.spaceError = FALSE,
                           !.state.submitted = FALSE,
                           !.state.error = ""])

\* AddUser: componentWillUpdate takes the error away when the username
\* changes
componentWillUpdate(s, nextState) ==
    IF nextState.username # s.username THEN [nextState EXCEPT !.error = FALSE]
    ELSE nextState

showError(s) == componentWillUpdate(s, [s EXCEPT !.error = TRUE])
dismissError(s) == componentWillUpdate(s, [s EXCEPT !.error = FALSE])
toggleForceReset(s) == componentWillUpdate(s, [s EXCEPT !.forceReset = ~s.forceReset])
getInitialState ==
    [username |-> "", password |-> "", confirm |-> "",
     error |-> FALSE, forceReset |-> FALSE]
hide(s) == componentWillUpdate(s, getInitialState)

Working == ~groupsModal.thrown

\* the group list of the store changes: a group created, a group removed,
\* the list loaded
GroupsReceiveGroups ==
    /\ Working
    /\ \E next \in GroupLists :
          /\ List(next) # groupsModal.props.groups
          /\ groupsModal' = componentWillReceiveProps(groupsModal,
                 [groupsModal.props EXCEPT !.groups = List(next)])
    /\ UNCHANGED <<addUser, samplesVars, viewsVars, apiKey, sagasVars, uploadVars>>

\* CREATE_GROUP_ERROR arrives for the group id submitted
GroupsReceiveError ==
    /\ Working
    /\ groupsModal.state.submitted
    /\ \E e \in CreateGroupErrors :
          groupsModal' = componentWillReceiveProps(groupsModal,
                 [groupsModal.props EXCEPT !.error = e])
    /\ UNCHANGED <<addUser, samplesVars, viewsVars, apiKey, sagasVars, uploadVars>>

\* a group of the list is clicked
GroupsHandleSelect ==
    /\ Working
    /\ groupsModal.props.groups # Null
    /\ \E g \in Range(groupsModal.props.groups.list) :
          groupsModal' = [groupsModal EXCEPT !.state.activeId = g.id]
    /\ UNCHANGED <<addUser, samplesVars, viewsVars, apiKey, sagasVars, uploadVars>>

GroupsHandleChange ==
    /\ Working
    /\ groupsModal.props.groups # Null
    /\ \E value \in Texts : groupsModal' = handleChange(groupsModal, value)
    /\ UNCHANGED <<addUser, samplesVars, viewsVars, apiKey, sagasVars, uploadVars>>

GroupsHandleSubmit ==
    /\ Working
    /\ groupsModal.props.groups # Null
    /\ groupsModal' = handleSubmit(groupsModal)
    /\ UNCHANGED <<addUser, samplesVars, viewsVars, apiKey, sagasVars, uploadVars>>

GroupsHandleModalExited ==
    /\ Working
    /\ groupsModal.props.groups # Null
    /\ groupsModal' = handleModalExited(groupsModal)
    /\ UNCHANGED <<addUser, samplesVars, viewsVars, apiKey, sagasVars, uploadVars>>

AddUserHandleChange ==
    /\ \E name \in {"username", "password", "confirm"}, value \in {"", "u"} :
          addUser' = componentWillUpdate(addUser, [addUser EXCEPT ![name] = value])
    /\ UNCHANGED <<groupsModal, samplesVars, viewsVars, apiKey, sagasVars, uploadVars>>

AddUserShowError ==
    /\ addUser' = showError(addUser)
    /\ UNCHANGED <<groupsModal, samplesVars, viewsVars, apiKey, sagasVars, uploadVars>>

AddUserDismissError ==
    /\ addUser' = dismissError(addUser)
    /\ UNCHANGED <<groupsModal, samplesVars, viewsVars, apiKey, sagasVars, uploadVars>>

AddUserToggleForceReset ==
    /\ addUser' = toggleForceReset(addUser)
    /\ UNCHANGED <<groupsModal, samplesVars, viewsVars, apiKey, sagasVars, uploadVars>>

AddUserHide ==
    /\ addUser' = hide(addUser)
    /\ UNCHANGED <<groupsModal, samplesVars, viewsVars, apiKey, sagasVars, uploadVars>>

\* Groups is mounted over the list the store has then, loaded or not
FormsInit ==
    /\ \E groups \in {Null} \cup {List(q) : q \in GroupLists} :
          groupsModal = GroupsMounted(groups)
    /\ addUser = getInitialState
    /\ SamplesIdle
    /\ ViewsIdle
    /\ APIKeyIdle
    /\ SagasIdle
    /\ UploadIdle

FormsNext ==
    \/ GroupsReceiveGroups
    \/ GroupsReceiveError
    \/ GroupsHandleSelect
    \/ GroupsHandleChange
    \/ GroupsHandleSubmit
    \/ GroupsHandleModalExited
    \/ AddUserHandleChange
    \/ AddUserShowError
    \/ AddUserDismissError
    \/ AddUserToggleForceReset
    \/ AddUserHide

FormsSpec == FormsInit /\ [][FormsNext]_vars

(***************************************************************************)
(* APIKey (indexes/components/Detail.js): an item of the list of API keys  *)
(* that opens to let the permissions of the key be edited.                 *)
(***************************************************************************)
Permissions == [PermissionKeys -> BOOLEAN]

APIKeyInitialState(props) ==
    [in |-> FALSE, changed |-> FALSE, permissions |-> props.permissions]

toggleIn(c) ==
    IF c.state.in
    THEN [c EXCEPT !.state.in = FALSE, !.state.permissions = c.props.permissions]
    ELSE [c EXCEPT !.state.in = TRUE]

onPermissionChange(c, key, value) ==
    LET permissions == [c.state.permissions EXCEPT ![key] = value]
    IN  [c EXCEPT !.state.changed = permissions # c.props.permissions,
                  !.state.permissions = permissions]

\* a click on the collapsed item or on the close button of the open one
APIKeyToggleIn ==
    /\ apiKey' = toggleIn(apiKey)
    /\ UNCHANGED <<samplesVars, viewsVars, formsVars, sagasVars, uploadVars>>

\* a permission is switched in the open item
APIKeyOnPermissionChange ==
    /\ apiKey.state.in
    /\ \E key \in PermissionKeys, value \in BOOLEAN :
          apiKey' = onPermissionChange(apiKey, key, value)
    /\ UNCHANGED <<samplesVars, viewsVars, formsVars, sagasVars, uploadVars>>

\* the component is constructed over the key it is given
APIKeyInit ==
    /\ \E p \in Permissions :
          apiKey = [props |-> [permissions |-> p],
                    state |-> APIKeyInitialState([permissions |-> p])]
    /\ SamplesIdle
    /\ ViewsIdle
    /\ FormsIdle
    /\ SagasIdle
    /\ UploadIdle

APIKeyNext ==
    \/ APIKeyToggleIn
    \/ APIKeyOnPermissionChange

APIKeySpec == APIKeyInit /\ [][APIKeyNext]_vars

(***************************************************************************)
(* The groups and files sagas (groups/sagas.js, files sagas): the watchers *)
(* and the tasks they fork.  tasks holds one entry for each request        *)
(* dispatched, in the order of dispatch; the entry of a request says where *)
(* its task is, and which API calls the task has issued.  apiCall of       *)
(* sagaUtils is modelled from the design document (section 5 and 7): it    *)
(* puts the SUCCEEDED action on a response and the FAILED action on an     *)
(* error, and returns in both cases.                                       *)
(***************************************************************************)
MaxRequests == 3

ListTypes == {"LIST_GROUPS", "LIST_FILES"}
ThrottledTypes == {"CREATE_GROUP", "REMOVE_GROUP"}

\* the API method each saga calls first
ApiOf(type) ==
    CASE type = "LIST_GROUPS" -> "groups.list"
      [] type = "LIST_FILES" -> "files.list"
      [] type = "CREATE_GROUP" -> "groups.create"
      [] type = "REMOVE_GROUP" -> "groups.remove"

\* the requests of a type whose task is waiting for the response of its
\* first API call
Running(ts, type) ==
    {k \in DOMAIN ts : ts[k].type = type /\ ts[k].pc = "api"}

\* the latest request of a type, 0 when there is none
Latest(ts, type) ==
    LET of == {k \in DOMAIN ts : ts[k].type = type}
    IN  IF of = {} THEN 0 ELSE CHOOSE k \in of : \A j \in of : j <= k

\* fork(saga, action): the task starts and issues its API call
fork(ts, type) ==
    Append(ts, [type |-> type, pc |-> "api", calls |-> <<ApiOf(type)>>])

\* a watcher that forks the saga for every action and cancels nothing
ForkWithoutCancel(ts, type) == fork(ts, type)

\* takeLatest(pattern, saga) on an action: the task forked for the previous
\* action is cancelled if it is still running, then the saga is forked
takeLatest(ts, type) ==
    fork([k \in DOMAIN ts |->
             IF k \in Running(ts, type) THEN [ts[k] EXCEPT !.pc = "cancelled"]
             ELSE ts[k]],
         type)

\* throttle(ms, pattern, saga) on an action while the delay runs: the action
\* waits in a sliding buffer of one, in the place of the one waiting there
buffer(ts, type) ==
    Append([k \in DOMAIN ts |->
               IF ts[k].type = type /\ ts[k].pc = "buffered"
               THEN [ts[k] EXCEPT !.pc = "dropped"] ELSE ts[k]],
           [type |-> type, pc |-> "buffered", calls |-> <<>>])

\* apiCall: the action put for the outcome of the call.  superseded tells
\* that the task was forked by takeLatest for a request that is no longer
\* the latest of its type when the action is put.
apiCall(ts, k, type, ok) ==
    [type |-> type \o (IF ok THEN ".SUCCEEDED" ELSE ".FAILED"),
     task |-> k,
     superseded |-> ts[k].type \in ListTypes /\ k # Latest(ts, ts[k].type)]

\* listGroups and listFiles: the task ends after its apiCall
listGroups(task, ok) == [task EXCEPT !.pc = "done"]
listFiles(task, ok) == [task EXCEPT !.pc = "done"]

\* a saga that lists the groups after a creation that succeeded and ends
\* after one that failed
ListAfterSuccessOnly(task, ok) ==
    IF ok THEN [task EXCEPT !.pc = "list", !.calls = Append(@, "groups.list")]
    ELSE [task EXCEPT !.pc = "done"]

\* createGroup and removeGroup: after the apiCall, yield listGroups()
createGroup(task, ok) ==
    [task EXCEPT !.pc = "list", !.calls = Append(@, "groups.list")]
removeGroup(task, ok) ==
    [task EXCEPT !.pc = "list", !.calls = Append(@, "groups.list")]

\* LIST_GROUPS.REQUESTED or LIST_FILES.REQUESTED is dispatched
ListRequested ==
    /\ Len(tasks) < MaxRequests
    /\ \E type \in ListTypes : tasks' = takeLatest(tasks, type)
    /\ UNCHANGED <<throttles, puts, samplesVars, viewsVars, formsVars,
                   apiKey, uploadVars>>

\* CREATE_GROUP.REQUESTED or REMOVE_GROUP.REQUESTED is dispatched
ThrottledRequested ==
    /\ Len(tasks) < MaxRequests
    /\ \E type \in ThrottledTypes :
          IF throttles[type]
          THEN /\ tasks' = buffer(tasks, type)
               /\ UNCHANGED throttles
          ELSE /\ tasks' = fork(tasks, type)
               /\ throttles' = [throttles EXCEPT ![type] = TRUE]
    /\ UNCHANGED <<puts, samplesVars, viewsVars, formsVars, apiKey, uploadVars>>

\* the delay of a throttle ends: the action waiting, if any, is taken, its
\* task forked and the delay started again
ThrottleDelayElapsed ==
    /\ \E type \in ThrottledTypes :
          /\ throttles[type]
          /\ LET waiting == {k \in DOMAIN tasks :
                               tasks[k].type = type /\ tasks[k].pc = "buffered"}
             IN  IF waiting = {}
                 THEN /\ throttles' = [throttles EXCEPT ![type] = FALSE]
                      /\ UNCHANGED tasks
                 ELSE /\ tasks' = [k \in DOMAIN tasks |->
                            IF k \in waiting
                            THEN [tasks[k] EXCEPT !.pc = "api",
                                                  !.calls = <<ApiOf(type)>>]
                            ELSE tasks[k]]
                      /\ UNCHANGED throttles
    /\ UNCHANGED <<puts, samplesVars, viewsVars, formsVars, apiKey, uploadVars>>

\* the API answers the first call of a task, with a response or an error
ApiResolves ==
    /\ \E k \in DOMAIN tasks, ok \in BOOLEAN :
          /\ tasks[k].pc = "api"
          /\ puts' = puts \cup {apiCall(tasks, k, tasks[k].type, ok)}
          /\ tasks' = [tasks EXCEPT ![k] =
                CASE tasks[k].type = "LIST_GROUPS" -> listGroups(tasks[k], ok)
                  [] tasks[k].type = "LIST_FILES" -> listFiles(tasks[k], ok)
                  [] tasks[k].type = "CREATE_GROUP" -> createGroup(tasks[k], ok)
                  [] tasks[k].type = "REMOVE_GROUP" -> removeGroup(tasks[k], ok)]
    /\ UNCHANGED <<throttles, samplesVars, viewsVars, formsVars, apiKey,
                   uploadVars>>

\* the API answers the list call that follows a creation or a removal
ListGroupsResolves ==
    /\ \E k \in DOMAIN tasks, ok \in BOOLEAN :
          /\ tasks[k].pc = "list"
          /\ puts' = puts \cup {apiCall(tasks, k, "LIST_GROUPS", ok)}
          /\ tasks' = [tasks EXCEPT ![k] = listGroups(tasks[k], ok)]
    /\ UNCHANGED <<throttles, samplesVars, viewsVars, formsVars, apiKey,
                   uploadVars>>

SagasInit ==
    /\ SagasIdle
    /\ SamplesIdle
    /\ ViewsIdle
    /\ FormsIdle
    /\ APIKeyIdle
    /\ UploadIdle

SagasNext ==
    \/ ListRequested
    \/ ThrottledRequested
    \/ ThrottleDelayElapsed
    \/ ApiResolves
    \/ ListGroupsResolves

SagasSpec == SagasInit /\ [][SagasNext]_vars

(***************************************************************************)
(* The upload saga and its channel (files sagas).  The request calls       *)
(* onProgress any number of times and then onSuccess or onFailure; each    *)
(* callback emits into an event channel with a sliding buffer of 2, and    *)
(* the saga takes from the channel one message at a time, at its own pace. *)
(* A message is [kind, progress]: progress is 0 where the message has      *)
(* none, as the saga's destructuring default makes it.                     *)
(***************************************************************************)
MaxProgress == 3
BufferSize == 2

ProgressMessage(n) == [kind |-> "progress", progress |-> n]
ResponseMessage == [kind |-> "response", progress |-> 0]
ErrMessage == [kind |-> "err", progress |-> 0]

\* a buffer that keeps what it holds and refuses the new message when full
dropping(buf, msg) ==
    IF Len(buf) < BufferSize THEN Append(buf, msg)
    ELSE buf

\* buffers.sliding(2).put: when the buffer is full the oldest message goes
sliding(buf, msg) ==
    IF Len(buf) < BufferSize THEN Append(buf, msg)
    ELSE Append(Tail(buf), msg)

\* emitter(message) of the event channel; nothing is accepted once closed
emitter(ch, msg) ==
    IF ch.closed THEN ch ELSE [ch EXCEPT !.buffer = sliding(@, msg)]
\* emitter(END)
emitterEND(ch) == [ch EXCEPT !.closed = TRUE]

uploadProgress(progress) == [type |-> "UPLOAD_PROGRESS", progress |-> progress]
\* putGenericError(UPLOAD, err) of sagaUtils: one error action
putGenericError == [type |-> "UPLOAD.FAILED", progress |-> 0]
uploadSucceeded == [type |-> "UPLOAD.SUCCEEDED", progress |-> 0]

\* a loop body that goes on to the progress dispatch after a response
UploadFallsThrough(task, msg) ==
    IF msg.kind = "err"
    THEN [pc |-> "done", dispatched |-> Append(task.dispatched, putGenericError)]
    ELSE IF msg.kind = "response"
    THEN [pc |-> "take",
          dispatched |-> Append(Append(task.dispatched, uploadSucceeded),
                                uploadProgress(msg.progress))]
    ELSE [pc |-> "take",
          dispatched |-> Append(task.dispatched, uploadProgress(msg.progress))]

\* the body of the saga's loop for a message taken from the channel
upload(task, msg) ==
    IF msg.kind = "err"
    THEN [pc |-> "done", dispatched |-> Append(task.dispatched, putGenericError)]
    ELSE IF msg.kind = "response"
    THEN [pc |-> "done", dispatched |-> Append(task.dispatched, uploadSucceeded)]
    ELSE [pc |-> "take",
          dispatched |-> Append(task.dispatched, uploadProgress(msg.progress))]

\* the request reports progress; the event may not be length-computable
OnProgress ==
    /\ xhr.outcome = "pending"
    /\ xhr.progress < MaxProgress
    /\ \E lengthComputable \in BOOLEAN :
          LET n == xhr.progress + 1
          IN  IF lengthComputable
              THEN /\ channel' = emitter(channel, ProgressMessage(n))
                   /\ xhr' = [xhr EXCEPT !.progress = n,
                                         !.emitted = @ \cup {n}]
              ELSE /\ xhr' = [xhr EXCEPT !.progress = n]
                   /\ UNCHANGED channel
    /\ UNCHANGED <<uploadTask, samplesVars, viewsVars, formsVars, apiKey,
                   sagasVars>>

OnSuccess ==
    /\ xhr.outcome = "pending"
    /\ xhr' = [xhr EXCEPT !.outcome = "response"]
    /\ channel' = emitterEND(emitter(channel, ResponseMessage))
    /\ UNCHANGED <<uploadTask, samplesVars, viewsVars, formsVars, apiKey,
                   sagasVars>>

OnFailure ==
    /\ xhr.outcome = "pending"
    /\ xhr' = [xhr EXCEPT !.outcome = "err"]
    /\ channel' = emitterEND(emitter(channel, ErrMessage))
    /\ UNCHANGED <<uploadTask, samplesVars, viewsVars, formsVars, apiKey,
                   sagasVars>>

\* take(channel) returns: with the oldest message of the buffer, or with END
\* when the channel is closed and empty, which ends the saga
UploadTake ==
    /\ uploadTask.pc = "take"
    /\ IF channel.buffer # <<>>
       THEN /\ uploadTask' = upload(uploadTask, Head(channel.buffer))
            /\ channel' = [channel EXCEPT !.buffer = Tail(@)]
       ELSE /\ channel.closed
            /\ uploadTask' = [uploadTask EXCEPT !.pc = "ended"]
            /\ UNCHANGED channel
    /\ UNCHANGED <<xhr, samplesVars, viewsVars, formsVars, apiKey, sagasVars>>

UploadInit ==
    /\ UploadIdle
    /\ SamplesIdle
    /\ ViewsIdle
    /\ FormsIdle
    /\ APIKeyIdle
    /\ SagasIdle

UploadNext ==
    \/ OnProgress
    \/ OnSuccess
    \/ OnFailure
    \/ UploadTake

UploadSpec == UploadInit /\ [][UploadNext]_vars

(***************************************************************************)
(* Properties.  A property of an action is stated for every state the      *)
(* store reaches and every action of the kind it can receive there.        *)
(***************************************************************************)
documents == DocumentsOf(state)
selection == Range(state.selected)

\* the Document Store and the Pagination Envelope
ListFields(s) ==
    <<s.documents, s.page, s.totalDocumentCount, s.totalPageCount, s.term>>

PushEvents ==
    {wsInsertSample(d) : d \in Documents}
        \cup {wsUpdateSample(d) : d \in Patches}
        \cup {wsRemoveSample(i) : i \in Ids}

FindRequests == {findSamplesRequested([term |-> x, page |-> n]) : x \in Terms, n \in Pages}

FindResponses == {findSamplesSucceeded(q) : q \in inflight}

MutationAttempts ==
    {[type |-> m \o ".REQUESTED"] : m \in Mutations}
        \cup {[type |-> m \o ".FAILED"] : m \in Mutations}

\* C1: after any sequence of pushed inserts, updates and removes (and query
\* results), no id appears twice in documents.
NoDuplicateIds == Cardinality(IdsOf(documents)) = Len(documents)

\* push events alone (no query has answered: page is still 0) have built a
\* list of two documents
PushedTwoDocuments == state.page = 0 /\ Len(documents) >= 2

\* C2: the answer to a query that is no longer the latest one requested
\* leaves documents, page, the counts and term as they were.
StaleResponseDiscarded ==
    [][\A q \in inflight :
          (q # requested /\ Dispatch(findSamplesSucceeded(q)))
              => ListFields(state') = ListFields(state)]_vars

\* C3: the REQUESTED and the FAILED action of UPDATE_SAMPLE,
\* UPDATE_SAMPLE_RIGHTS and REMOVE_SAMPLE leave the whole state as it was.
FailedMutationChangesNothing ==
    \A a \in MutationAttempts : samplesReducer(state, a) = state

\* a mutation is attempted on a state with documents, counts, an open
\* detail and a selection
FailedMutationOnLoadedState ==
    /\ documents # <<>>
    /\ state.totalDocumentCount > 0
    /\ state.detail # Null
    /\ state.selected # <<>>

\* C4: WS_REMOVE_SAMPLE for an id that is not in documents leaves the whole
\* state as it was.
RemoveAbsentIsNoOp ==
    \A i \in Ids \ IdsOf(documents) : samplesReducer(state, wsRemoveSample(i)) = state

\* the removed id is not in the loaded documents, it is the open detail and
\* it is selected, and the count is positive
RemoveAbsentCase ==
    \E i \in Ids \ IdsOf(documents) :
        /\ documents # <<>>
        /\ state.totalDocumentCount > 0
        /\ state.detail = SampleDetail(i)
        /\ i \in selection

\* C5: SELECT_SAMPLE with an id, applied twice in succession, gives back the
\* selection there was before, as a set.
ToggleTwiceRestores ==
    \A i \in Ids :
        Range(samplesReducer(samplesReducer(state, selectSample(i)),
                             selectSample(i)).selected) = selection

\* two ids were selected, the larger first: toggling the first one twice
\* gives the same set in another order
ToggleTwiceCase ==
    /\ Len(state.selected) = 2
    /\ state.selected[1] > state.selected[2]
    /\ LET i == state.selected[1]
       IN  samplesReducer(samplesReducer(state, selectSample(i)),
                          selectSample(i)).selected # state.selected

\* C6: SELECT_SAMPLE with id x takes x out of the selection when it is in
\* it and puts it in otherwise; no other id enters or leaves.
SelectIsSymmetricDifference ==
    \A x \in Ids :
        Range(samplesReducer(state, selectSample(x)).selected) =
            IF x \in selection THEN selection \ {x} ELSE selection \cup {x}

\* one id is selected and another is not: both branches apply here
SelectBothBranches ==
    /\ state.documents # Null
    /\ \E x \in selection, y \in Ids \ selection :
          /\ samplesReducer(state, selectSample(x)).selected = <<>>
          /\ Len(samplesReducer(state, selectSample(y)).selected) = 2

\* C7: CLEAR_SAMPLE_SELECTION leaves the selection empty, whatever it was
\* and whatever documents are loaded.
ClearEmptiesSelection ==
    samplesReducer(state, clearSampleSelection).selected = <<>>

\* a selection of a loaded and of a missing document is there to clear
ClearCase ==
    /\ documents # <<>>
    /\ selection \cap IdsOf(documents) # {}
    /\ selection \ IdsOf(documents) # {}

\* C8: query requests, query results and push events leave selected as it
\* was.
SelectionSurvivesListChanges ==
    \A a \in PushEvents \cup FindRequests \cup FindResponses :
        samplesReducer(state, a).selected = state.selected

\* the latest query has answered with a page that lacks a selected id
SelectedIdNotOnPage ==
    /\ inflight = {}
    /\ requested # NoRequest
    /\ state.documents = List(FindResult(requested.term, requested.page).documents)
    /\ selection \ IdsOf(documents) # {}

\* C9: SELECT_SAMPLE and CLEAR_SAMPLE_SELECTION change no field but
\* selected.
SelectionActionsChangeOnlySelected ==
    \A a \in {selectSample(i) : i \in Ids} \cup {clearSampleSelection} :
        [samplesReducer(state, a) EXCEPT !.selected = state.selected] = state

\* a selection over a state in which the other fields have left their
\* initial values
SelectionOverLoadedState ==
    /\ state.selected # <<>>
    /\ documents # <<>>
    /\ state.detail # Null
    /\ state.term # ""
    /\ state.page >= 1
    /\ state.totalDocumentCount > 0

\* C10: a query result applied a second time leaves documents and the
\* pagination fields as the first application left them.
FindSucceededIdempotent ==
    \A a \in FindResponses :
        ListFields(samplesReducer(samplesReducer(state, a), a))
            = ListFields(samplesReducer(state, a))

\* the answer to the latest query is in place, and no query is in flight
FindSucceededInPlace ==
    /\ inflight = {}
    /\ requested # NoRequest
    /\ ListFields(state) = ListFields(samplesReducer(state, findSamplesSucceeded(requested)))

\* C11: WS_UPDATE_SAMPLE for an id in documents merges the payload into that
\* entry (the fields it names take its values, the others keep theirs), keeps
\* every document at its position and leaves the total count as it was; for
\* an id not in documents it changes nothing.
UpdateMergesInPlace ==
    \A p \in Patches :
        LET r == samplesReducer(state, wsUpdateSample(p))
            q == DocumentsOf(r)
        IN  IF p.id \in IdsOf(documents)
            THEN /\ Len(q) = Len(documents)
                 /\ \A j \in 1..Len(q) :
                       q[j] = IF documents[j].id = p.id
                              THEN [id |-> p.id,
                                    created_at |-> p.created_at,
                                    name |-> documents[j].name]
                              ELSE documents[j]
                 /\ r.totalDocumentCount = state.totalDocumentCount
            ELSE r = state

\* an update has given the first of two documents the later creation time
\* and left it in the first place
UpdatedOutOfOrder ==
    /\ Len(documents) = 2
    /\ documents[1].created_at > documents[2].created_at
    /\ state.totalDocumentCount = 2

Sorted(q) == \A i, j \in 1..Len(q) : i < j => q[i].created_at <= q[j].created_at

\* q with the entry of the given id taken out
Without(q, id) == SelectSeq2(q, {d \in Range(q) : d.id = id})

\* the list of s with d put in where created_at places it
InsertedInOrder(s, r, d) ==
    /\ Len(DocumentsOf(r)) = Len(DocumentsOf(s)) + 1
    /\ d \in Range(DocumentsOf(r))
    /\ Without(DocumentsOf(r), d.id) = DocumentsOf(s)
    /\ Sorted(DocumentsOf(s)) => Sorted(DocumentsOf(r))

\* C12 as stated: WS_INSERT_SAMPLE for an id not in documents puts the
\* payload where created_at places it, keeping a sorted list sorted, and
\* makes the total count one more than it was, in every state.
InsertCountsFromAnyState ==
    \A d \in Documents :
        d.id \notin IdsOf(documents) =>
            LET r == samplesReducer(state, wsInsertSample(d))
            IN  /\ InsertedInOrder(state, r, d)
                /\ state.totalDocumentCount \in Nat
                /\ r.totalDocumentCount = state.totalDocumentCount + 1

\* C12: WS_INSERT_SAMPLE for an id not in documents puts the payload where
\* created_at places it, the other documents keeping their order and a sorted
\* list staying sorted; the total count becomes one more when the state has a
\* total count, and is not a number when it has none (no query result yet).
InsertAtSortedPosition ==
    \A d \in Documents :
        d.id \notin IdsOf(documents) =>
            LET r == samplesReducer(state, wsInsertSample(d))
            IN  /\ InsertedInOrder(state, r, d)
                /\ IF state.totalDocumentCount \in Nat
                   THEN r.totalDocumentCount = state.totalDocumentCount + 1
                   ELSE r.totalDocumentCount = NaN

\* after a query result, a pushed document has gone in ahead of the document
\* that was listed and the count is two
InsertedInFront ==
    /\ state.page >= 1
    /\ Len(documents) = 2
    /\ documents[1].id = 2
    /\ documents[2].id = 1
    /\ documents[1].created_at < documents[2].created_at
    /\ state.totalDocumentCount = 2

\* C13: WS_INSERT_SAMPLE for an id already in documents gives the state that
\* WS_UPDATE_SAMPLE with the same payload gives: as many documents, the same
\* ids at the same positions, the same total count.
InsertOfPresentIsUpdate ==
    \A d \in Documents \cup Patches :
        d.id \in IdsOf(documents) =>
            LET r == samplesReducer(state, wsInsertSample(d))
            IN  /\ r = samplesReducer(state, wsUpdateSample(d))
                /\ IdsOf(DocumentsOf(r)) = IdsOf(documents)
                /\ Len(DocumentsOf(r)) = Len(documents)
                /\ \A j \in 1..Len(documents) :
                       DocumentsOf(r)[j].id = documents[j].id
                /\ r.totalDocumentCount = state.totalDocumentCount

\* two documents are listed and a push insert can bring one of them with
\* another creation time
InsertOfListedDocument ==
    /\ Len(documents) >= 2
    /\ state.totalDocumentCount = Len(documents)
    /\ \E d \in Documents :
          /\ d.id \in IdsOf(documents)
          /\ d \notin Range(documents)
          /\ samplesReducer(state, wsInsertSample(d)) # state

\* the list of r is the list of s with exactly the entry of id i deleted,
\* the others in their order
DeletedOnly(s, r, i) ==
    /\ Len(DocumentsOf(r)) = Len(DocumentsOf(s)) - 1
    /\ i \notin IdsOf(DocumentsOf(r))
    /\ DocumentsOf(r) = Without(DocumentsOf(s), i)

\* C14 as stated: WS_REMOVE_SAMPLE for an id in documents deletes exactly
\* that entry, keeps the order of the others and makes the total count one
\* less and not negative, in every state.
RemoveCountsFromAnyState ==
    \A i \in IdsOf(documents) :
        LET r == samplesReducer(state, wsRemoveSample(i))
        IN  /\ DeletedOnly(state, r, i)
            /\ state.totalDocumentCount \in Nat
            /\ r.totalDocumentCount = state.totalDocumentCount - 1
            /\ r.totalDocumentCount >= 0

\* C14: WS_REMOVE_SAMPLE for an id in documents deletes exactly that entry
\* and keeps the order of the others; when the state has a total count the
\* count becomes one less and is not negative, and when it has none (the
\* document was pushed before any query result) the count stays not a number.
RemoveDeletesAndDecrements ==
    \A i \in IdsOf(documents) :
        LET r == samplesReducer(state, wsRemoveSample(i))
        IN  /\ DeletedOnly(state, r, i)
            /\ IF state.totalDocumentCount \in Nat
               THEN /\ r.totalDocumentCount = state.totalDocumentCount - 1
                    /\ r.totalDocumentCount >= 0
               ELSE r.totalDocumentCount = NaN

\* after a query result, the first listed document has been removed: the
\* second one is alone and the count is one
RemovedFirstDocument ==
    /\ state.page >= 1
    /\ Len(documents) = 1
    /\ documents[1].id = 2
    /\ state.totalDocumentCount = 1

\* C15: push events take effect in the order they arrive: for a document
\* whose id is not in the list, insert then remove ends with the id absent
\* and the list as it was, remove then insert ends with the document listed.
PushEventsInArrivalOrder ==
    \A d \in Documents :
        d.id \notin IdsOf(documents) =>
            LET ins == wsInsertSample(d)
                rem == wsRemoveSample(d.id)
                insertRemove == samplesReducer(samplesReducer(state, ins), rem)
                removeInsert == samplesReducer(samplesReducer(state, rem), ins)
            IN  /\ d.id \notin IdsOf(DocumentsOf(insertRemove))
                /\ DocumentsOf(insertRemove) = documents
                /\ d \in Range(DocumentsOf(removeInsert))
                /\ removeInsert = samplesReducer(state, ins)

\* before any query result, a document was pushed in and then removed: the
\* list is empty and the count has been through an increment
InsertedThenRemoved ==
    /\ state.documents = List(<<>>)
    /\ state.page = 0
    /\ state.totalDocumentCount = NaN

DetailUpdates ==
    {[type |-> "UPDATE_SAMPLE.SUCCEEDED", data |-> d] : d \in Edits}
        \cup {[type |-> "UPDATE_SAMPLE_RIGHTS.SUCCEEDED", data |-> d] : d \in Rights}

\* C17: UPDATE_SAMPLE.SUCCEEDED and UPDATE_SAMPLE_RIGHTS.SUCCEEDED merge
\* action.data into detail: the fields it names take its values, every other
\* field of detail keeps its value, and nothing but detail changes (documents
\* and selected among the rest).
DetailUpdateMerges ==
    \A a \in DetailUpdates :
        LET r == samplesReducer(state, a)
        IN  /\ [r EXCEPT !.detail = state.detail] = state
            /\ r.documents = state.documents
            /\ r.selected = state.selected
            /\ \A f \in DOMAIN a.data : r.detail[f] = a.data[f]
            /\ IF state.detail = Null
               THEN DOMAIN r.detail = DOMAIN a.data
               ELSE /\ DOMAIN r.detail = DOMAIN state.detail \cup DOMAIN a.data
                    /\ \A f \in DOMAIN state.detail \ DOMAIN a.data :
                          r.detail[f] = state.detail[f]

\* the open sample has been renamed and its rights changed, its id is still
\* in the detail, and there are listed and selected samples
DetailEditedTwice ==
    /\ state.detail # Null
    /\ DOMAIN state.detail = {"id", "name", "all_read"}
    /\ state.detail.name = "renamed"
    /\ state.detail.all_read
    /\ Len(documents) > 0
    /\ state.selected # <<>>

\* C18: with a sample open, the detail that REMOVE_SAMPLE.SUCCEEDED leaves
\* differs from the detail that GET_SAMPLE.REQUESTED leaves, so that a
\* removed sample can be told from one that is loading.
RemovedDetailDistinctFromLoading ==
    state.detail # Null =>
        samplesReducer(state, [type |-> "REMOVE_SAMPLE.SUCCEEDED"]).detail
            # samplesReducer(state, [type |-> "GET_SAMPLE.REQUESTED"]).detail

\* C19: with a sample open, WS_REMOVE_SAMPLE for its id clears detail and
\* WS_REMOVE_SAMPLE for any other id leaves detail as it was.
PushRemoveClearsOpenDetail ==
    (state.detail # Null /\ "id" \in DOMAIN state.detail) =>
        \A i \in Ids :
            samplesReducer(state, wsRemoveSample(i)).detail =
                IF i = state.detail.id THEN Null ELSE state.detail

\* C20 as stated: in every reachable state, the initial one included, page
\* is an integer >= 1 and both total counts are integers >= 0.
PaginationEnvelopeAlways ==
    /\ state.page \in Nat
    /\ state.page >= 1
    /\ state.totalDocumentCount \in Nat
    /\ state.totalPageCount \in Nat

\* C20: page is an integer >= 0 in every reachable state; it is 0 exactly
\* until the first query result is applied, and until then the state has no
\* total page count and no numeric total document count.  Every
\* FIND_SAMPLES.SUCCEEDED leaves page >= 1 and both counts integers >= 0, and
\* they stay so from then on.
PaginationEnvelopeOnceLoaded ==
    /\ state.page \in Nat
    /\ IF state.page = 0
       THEN /\ state.totalPageCount = Undefined
            /\ state.totalDocumentCount \in {Undefined, NaN}
       ELSE /\ state.totalDocumentCount \in Nat
            /\ state.totalPageCount \in Nat
    /\ \A a \in FindResponses :
          LET r == samplesReducer(state, a)
          IN  /\ r.page \in Nat /\ r.page >= 1
              /\ r.totalDocumentCount \in Nat
              /\ r.totalPageCount \in Nat

\* a query result has been applied and its only document removed: the page
\* is 1 and the total document count is down to 0
CountDownToZero ==
    /\ state.page >= 1
    /\ state.totalDocumentCount = 0
    /\ state.documents = List(<<>>)

(***************************************************************************)
(* Properties of the detail views.                                         *)
(***************************************************************************)
Rendered ==
    [index |-> IndexDetailRender(indexDetail),
     reference |-> ReferenceDetailRender(referenceDetail),
     resources |-> JobsResourcesRender(jobsResources)]

ErrorShownAsNotFound ==
    /\ Rendered.index = "NotFound" <=> indexDetail.error # Null
    /\ Rendered.reference = "NotFound" <=> referenceDetail.error # Null
    /\ Rendered.resources = "NotFound" <=> jobsResources.error # Null

\* C21 as stated: in the three views a fetch error is shown as NotFound
\* whatever the slot holds, and the loading placeholder is shown only when
\* there is no error and the slot is null.
LoadingOnlyForNullSlot ==
    /\ ErrorShownAsNotFound
    /\ Rendered.index = "LoadingPlaceholder" =>
          indexDetail.error = Null /\ indexDetail.detail = Null
    /\ Rendered.reference = "LoadingPlaceholder" =>
          referenceDetail.error = Null /\ referenceDetail.detail = Null
    /\ Rendered.resources = "LoadingPlaceholder" =>
          jobsResources.error = Null /\ jobsResources.resources = Null

\* C21: in the three views NotFound is shown exactly when the fetch error is
\* present, whatever the slot holds.  Without an error, IndexDetail and
\* JobsResources show the loading placeholder exactly when the slot is null,
\* and ReferenceDetail shows it when the slot is null and also when it holds
\* the document of another reference than the one of the route.
NotFoundOverLoading ==
    /\ ErrorShownAsNotFound
    /\ Rendered.index = "LoadingPlaceholder" <=>
          indexDetail.error = Null /\ indexDetail.detail = Null
    /\ Rendered.resources = "LoadingPlaceholder" <=>
          jobsResources.error = Null /\ jobsResources.resources = Null
    /\ Rendered.reference = "LoadingPlaceholder" <=>
          /\ referenceDetail.error = Null
          /\ \/ referenceDetail.detail = Null
             \/ referenceDetail.detail.id # referenceDetail.refId

\* IndexDetail has the error and no document, JobsResources the error and
\* resources loaded before, ReferenceDetail no error and the document of
\* another reference
ErrorsAndStaleReference ==
    /\ indexDetail.error # Null /\ indexDetail.detail = Null
    /\ jobsResources.error # Null /\ jobsResources.resources # Null
    /\ referenceDetail.error = Null
    /\ referenceDetail.detail # Null
    /\ referenceDetail.detail.id # referenceDetail.refId

\* C28: at most one polling interval of JobsResources is active at any
\* time, and none is active once the component has been unmounted.
OnePollingInterval ==
    /\ Cardinality(window.intervals) <= 1
    /\ jobsResources.mounted = "unmounted" => window.intervals = {}

(***************************************************************************)
(* Properties of the forms.                                                *)
(***************************************************************************)
\* C22: a failed creation keeps what was entered.  In the Groups modal the
\* arrival of CREATE_GROUP_ERROR over an unchanged group list leaves
\* createGroupId (and the rest of the component state) as it was; in AddUser
\* showError sets error and leaves username, password, confirm and
\* forceReset as entered.
FailedCreateKeepsForm ==
    /\ \A e \in CreateGroupErrors :
          LET c == componentWillReceiveProps(groupsModal,
                       [groupsModal.props EXCEPT !.error = e])
          IN  /\ c.state.createGroupId = groupsModal.state.createGroupId
              /\ groupsModal.props.groups # Null =>
                    /\ ~c.thrown
                    /\ c.props.error = e
                    /\ c.state.submitted = groupsModal.state.submitted
    /\ showError(addUser) = [addUser EXCEPT !.error = TRUE]

\* the group id submitted is still in the field with the error of the
\* creation shown, and the user form has its error over a filled form
BothFormsShowErrors ==
    /\ groupsModal.state.createGroupId = "new"
    /\ groupsModal.state.submitted
    /\ groupsModal.props.error \in CreateGroupErrors
    /\ addUser.error
    /\ addUser.username = "u"
    /\ addUser.password = "u"
    /\ addUser.confirm = "u"
    /\ addUser.forceReset

\* C26: in the Groups modal activeId never names a group that is not in the
\* current group list, whatever groups were created or removed, a removal
\* that empties the list included.
ActiveGroupListed ==
    (groupsModal.props.groups # Null /\ groupsModal.state.activeId # NullId) =>
        \E g \in Range(groupsModal.props.groups.list) :
            g.id = groupsModal.state.activeId

(***************************************************************************)
(* Properties of APIKey.                                                   *)
(***************************************************************************)
\* C29: in every state of APIKey, changed is true exactly when the
\* permissions being edited differ from the permissions of the key, so that
\* Update is enabled only over unsaved edits.
ChangedIffEdited ==
    apiKey.state.changed <=> apiKey.state.permissions # apiKey.props.permissions

(***************************************************************************)
(* The detail slot between a fetch request and its answer.                 *)
(***************************************************************************)
\* C30: after GET_SAMPLE.REQUESTED detail is null and stays null under
\* every action other than GET_SAMPLE.SUCCEEDED: a push event, a query
\* request or result, a mutation attempt, a selection action, a removal,
\* and an UPDATE_SAMPLE.SUCCEEDED or UPDATE_SAMPLE_RIGHTS.SUCCEEDED.
LoadingUntilFetched ==
    LET loading == samplesReducer(state, [type |-> "GET_SAMPLE.REQUESTED"])
        StaysNull(a) == samplesReducer(loading, a).detail = Null
    IN  /\ loading.detail = Null
        /\ \A a \in PushEvents : StaysNull(a)
        /\ \A a \in FindRequests : StaysNull(a)
        /\ \A a \in FindResponses : StaysNull(a)
        /\ \A a \in MutationAttempts : StaysNull(a)
        /\ \A i \in Ids : StaysNull(selectSample(i))
        /\ StaysNull(clearSampleSelection)
        /\ StaysNull([type |-> "REMOVE_SAMPLE.SUCCEEDED"])
        /\ StaysNull([type |-> "GET_SAMPLE.REQUESTED"])
        /\ \A a \in DetailUpdates : StaysNull(a)

(***************************************************************************)
(* Properties of the groups and files sagas.                               *)
(***************************************************************************)
PutsOf(k) == {p \in puts : p.task = k}

\* C23: a list request dispatched while the task of an earlier request of
\* its type waits for its API response cancels that task: of each list type
\* only the task of the latest request can be waiting, every earlier one is
\* cancelled or has ended, and no action is put for a request that was no
\* longer the latest of its type.
OnlyLatestListTaskPuts ==
    /\ \A type \in ListTypes : Running(tasks, type) \subseteq {Latest(tasks, type)}
    /\ \A k \in DOMAIN tasks :
          (tasks[k].type \in ListTypes /\ k # Latest(tasks, tasks[k].type)) =>
              /\ tasks[k].pc \in {"cancelled", "done"}
              /\ tasks[k].pc = "cancelled" => PutsOf(k) = {}
    /\ \A p \in puts : ~p.superseded

\* the first list request was overtaken by a second of its type and its
\* task cancelled; the task of the second has put its SUCCEEDED action
EarlierListTaskCancelled ==
    /\ Len(tasks) >= 2
    /\ tasks[1].type \in ListTypes
    /\ tasks[2].type = tasks[1].type
    /\ tasks[1].pc = "cancelled"
    /\ tasks[2].pc = "done"
    /\ \E p \in PutsOf(2) : p.type = tasks[2].type \o ".SUCCEEDED"

\* C27: the task of every handled CREATE_GROUP.REQUESTED and
\* REMOVE_GROUP.REQUESTED issues the create or remove call first and the
\* group list call exactly once after it, when that call has been answered
\* with a response or with an error; before the answer no list call is
\* issued.
ListCallFollowsMutation ==
    \A k \in DOMAIN tasks :
        tasks[k].type \in ThrottledTypes =>
            LET own == {p \in PutsOf(k) :
                          p.type \in {tasks[k].type \o ".SUCCEEDED",
                                      tasks[k].type \o ".FAILED"}}
            IN  CASE tasks[k].pc \in {"buffered", "dropped"} ->
                        tasks[k].calls = <<>> /\ PutsOf(k) = {}
                  [] tasks[k].pc = "api" ->
                        tasks[k].calls = <<ApiOf(tasks[k].type)>> /\ PutsOf(k) = {}
                  [] tasks[k].pc \in {"list", "done"} ->
                        /\ tasks[k].calls = <<ApiOf(tasks[k].type), "groups.list">>
                        /\ Cardinality(own) = 1
                  [] OTHER -> FALSE

\* a creation has failed and a removal has succeeded, and each task has
\* issued its list call after that
ListedAfterFailureAndSuccess ==
    \E j, k \in DOMAIN tasks :
        /\ tasks[j].type = "CREATE_GROUP"
        /\ tasks[k].type = "REMOVE_GROUP"
        /\ \E p \in PutsOf(j) : p.type = "CREATE_GROUP.FAILED"
        /\ \E p \in PutsOf(k) : p.type = "REMOVE_GROUP.SUCCEEDED"
        /\ tasks[j].calls = <<"groups.create", "groups.list">>
        /\ tasks[k].calls = <<"groups.remove", "groups.list">>

(***************************************************************************)
(* Properties of the upload saga and its channel                           *)
(***************************************************************************)
Terminal(a) == a.type \in {"UPLOAD.SUCCEEDED", "UPLOAD.FAILED"}

\* the progress values of a sequence of messages or actions, in order
RECURSIVE ProgressOf(_)
ProgressOf(q) ==
    IF q = <<>> THEN <<>>
    ELSE IF Head(q).progress > 0
         THEN <<Head(q).progress>> \o ProgressOf(Tail(q))
         ELSE ProgressOf(Tail(q))

Increasing(q) == \A i \in 1..Len(q) : \A j \in 1..Len(q) : i < j => q[i] < q[j]
\* C24: an upload task that takes the response or the error dispatches one
\* terminal action for it (UPLOAD.SUCCEEDED for a response, the UPLOAD error
\* for an error), stops there, and dispatches nothing after it; a task that
\* has not taken either has dispatched progress only.
OneTerminalActionThenStop ==
    LET d == uploadTask.dispatched
    IN  /\ \A i \in 1..Len(d) : Terminal(d[i]) => i = Len(d)
        /\ uploadTask.pc = "done" <=> (d # <<>> /\ Terminal(d[Len(d)]))
        /\ uploadTask.pc = "done" =>
              d[Len(d)] = IF xhr.outcome = "response" THEN uploadSucceeded
                          ELSE putGenericError
        /\ uploadTask.pc = "done" => xhr.outcome # "pending"

\* C24 witness: progress was dispatched, then the response ended the task
SucceededAfterProgress ==
    LET d == uploadTask.dispatched
    IN  /\ uploadTask.pc = "done"
        /\ Len(d) >= 2
        /\ d[1].type = "UPLOAD_PROGRESS"
        /\ d[Len(d)] = uploadSucceeded

\* C25: once the request has answered, its response or error message is the
\* newest message of the channel until the saga takes it, and the saga never
\* meets the end of the channel before it; a progress message that was
\* emitted and neither delivered nor held is older than every message held;
\* progress is delivered in the order of emission.
TerminalMessageDelivered ==
    LET buf == channel.buffer
        delivered == ProgressOf(uploadTask.dispatched)
        held == ProgressOf(buf)
        dropped == xhr.emitted \ (Range(delivered) \cup Range(held))
    IN  /\ Len(buf) <= BufferSize
        /\ xhr.outcome # "pending" =>
              /\ channel.closed
              /\ \/ uploadTask.pc = "done"
                 \/ /\ buf # <<>>
                    /\ buf[Len(buf)] = IF xhr.outcome = "response"
                                       THEN ResponseMessage ELSE ErrMessage
        /\ uploadTask.pc # "ended"
        /\ \A x \in dropped : \A y \in Range(held) : x < y
        /\ Increasing(delivered \o held)
        /\ Range(delivered) \cup Range(held) \subseteq xhr.emitted

\* C25 witness: three progress messages were emitted, the saga took none of
\* them before the error, the first two were pushed out, the error arrived
ErrDeliveredAfterDrops ==
    /\ xhr.emitted = {1, 2, 3}
    /\ uploadTask.pc = "done"
    /\ uploadTask.dispatched = <<uploadProgress(3), putGenericError>>

====
